---- MODULE Spec2Model ----
(***************************************************************************)
(* Model of the Kosha Python client SDK (sdks/python/kosha_client.py):     *)
(* AuditHashValidator, BatchProcessor.process_batch,                       *)
(* BatchProcessor.process_all, the Retry mounted on the session and        *)
(* KoshaClient.reconcile_batch.                                            *)
(*                                                                         *)
(* Specifications.  Spec: short lists, every answer, a transport without   *)
(* retries, a clock of one tick per reading.  SpecScenario: the documented *)
(* 2,500 transactions.  SpecCap: a list longer than the ceiling of the     *)
(* batch size.  SpecRetry: the retries of the transport as steps.          *)
(* SpecTimed: every reading of the clock.  SpecValidator: the validator    *)
(* called on its own.                                                      *)
(*                                                                         *)
(* Representation.  A Python dict supplied by the caller (a transaction)   *)
(* is a sequence of <<key, value>> pairs with distinct keys, in insertion  *)
(* order.  Scalar values are represented by their JSON text (a string),    *)
(* a value json cannot write natively by its repr.                         *)
(* A JSON object decoded from a response is a TLA+ record (it is only ever *)
(* read by key).  A list is a sequence.  Strings built by f-strings are    *)
(* built with \o and ToString.                                             *)
(***************************************************************************)
EXTENDS Integers, Sequences, FiniteSets, TLC

VARIABLES
    client_batch_size,    \* <<self.batch_size>> of the KoshaClient whose reconcile_batch
                          \* built the processor; <<>>: it was constructed directly
    requested_batch_size, \* the batch_size argument of BatchProcessor.__init__
    batch_size,           \* self.batch_size
    has_callback,         \* self.progress_callback is not None
    max_retries,          \* self.max_retries, the total of the Retry of the session
    pc,                   \* position of the caller inside process_all
    transactions,         \* argument of process_all
    validate_audit_hash,  \* argument of process_all
    total,                \* local of process_all
    i,                    \* loop variable of process_all
    all_results,          \* local of process_all
    failed_batches,       \* local of process_all
    in_flight,            \* requests handed to session.post and not yet answered
    tries,                \* retries the transport has spent on the request in flight
    exchanges,            \* history: every HTTP request sent and how it was answered
    submissions,          \* history: every request handed to session.post
    attempts,             \* history: how each batch attempt ended
    progress_calls,       \* history: every invocation of the progress callback
    warnings,             \* history: the invalid-hash warnings printed
    summary,              \* the dictionary returned by process_all
    batch_results,        \* history: the timing of every BatchResult process_batch returned
    validator_pc,         \* position of a caller using AuditHashValidator on its own
    caller_result,        \* the result that caller passes to validate_result
    caller_original,      \* the original transaction that caller passes
    hash_value,           \* what compute_audit_hash(caller_original) returned
    verdict,              \* what validate_result returned
    change                \* history: the field the caller changed after a true verdict

\* what the constructors set and nothing changes afterwards
config == <<client_batch_size, requested_batch_size, batch_size, has_callback,
            max_retries>>

\* the state of a caller of AuditHashValidator
validator == <<validator_pc, caller_result, caller_original, hash_value, verdict,
               change>>

vars == <<config, validator, pc, transactions, validate_audit_hash, total, i, all_results, failed_batches,
          in_flight, tries, exchanges, submissions, attempts, progress_calls,
          warnings, summary, batch_results>>

(***************************************************************************)
(* Bounds of the model.                                                    *)
(***************************************************************************)
\* longest transaction list enumerated exhaustively
MaxLen == 3
\* largest batch size enumerated exhaustively
MaxBatch == 3
\* longest time between two readings of the clock, in ticks
MaxElapsed == 2
\* longest transaction list enumerated with the clock
MaxTimedLen == 2
\* largest max_retries enumerated
MaxRetries == 1
\* longest transaction list enumerated with retries
MaxRetryLen == 2

\* the ceiling of BatchProcessor.__init__
MaxBatchSize == 5000
\* the default batch_size of BatchProcessor.__init__
DefaultBatchSize == 1000

None == "None"

Min(a, b) == IF a <= b THEN a ELSE b

\* ceil(n / b) for b >= 1
CeilDiv(n, b) == (n + b - 1) \div b

RECURSIVE Flatten(_)
Flatten(ss) == IF ss = <<>> THEN <<>> ELSE Head(ss) \o Flatten(Tail(ss))

RECURSIVE Gcd(_, _)
Gcd(a, b) == IF b = 0 THEN a ELSE Gcd(b, a % b)

\* the quotient a / b of a >= 0 by b > 0, as a fraction in lowest terms
Divide(a, b) == <<a \div Gcd(a, b), b \div Gcd(a, b)>>

\* the number 0
Zero == <<0, 1>>

RECURSIVE SumSeq(_)
SumSeq(s) == IF s = <<>> THEN 0 ELSE Head(s) + SumSeq(Tail(s))

(***************************************************************************)
(* Python dicts as insertion-ordered sequences of <<key, value>> pairs.    *)
(***************************************************************************)
\* keys that are Python ints rather than strs (json coerces them on output)
IntKeys == {"int:1"}

HasKey(d, k) == \E n \in 1..Len(d) : d[n][1] = k

\* d[k] for a key known to be present
Lookup(d, k) == d[CHOOSE n \in 1..Len(d) : d[n][1] = k][2]

\* dict.get(k, default)
Get(d, k, default) == IF HasKey(d, k) THEN Lookup(d, k) ELSE default

\* d[k] = v : an existing key keeps its position, a new key is appended
DictSet(d, k, v) ==
    IF HasKey(d, k)
    THEN [n \in 1..Len(d) |-> IF d[n][1] = k THEN <<k, v>> ELSE d[n]]
    ELSE Append(d, <<k, v>>)

(***************************************************************************)
(* json.dumps(data, sort_keys=True, default=str)                           *)
(***************************************************************************)
\* the string keys of the model in Python's (lexicographic) str order
KeyOrder == <<"1", "confidence", "exception_flag", "reason_code",
              "sequence_id", "transaction_id">>

Rank(k) == CHOOSE n \in 1..Len(KeyOrder) : KeyOrder[n] = k

\* the key as json writes it: an int key is coerced to its decimal text
JsonKey(k) == IF k \in IntKeys THEN "1" ELSE k

\* values json cannot write natively (a decimal.Decimal), by their repr
ObjectValues == {"Decimal('1')"}

\* the value as json writes it: default=str turns an object into its str(),
\* which is then written as a JSON string
JsonValue(v) == IF v \in ObjectValues THEN "\"1\"" ELSE v

\* sorting the items compares the keys with <, which raises TypeError for
\* a str and an int
SortKeysRaises(data) ==
    \E a, b \in 1..Len(data) : (data[a][1] \in IntKeys) # (data[b][1] \in IntKeys)

\* the items of data ordered by key
SortedItems(data) ==
    [n \in 1..Len(data) |->
        LET p == CHOOSE q \in 1..Len(data) :
                    Cardinality({r \in 1..Len(data) :
                        Rank(JsonKey(data[r][1])) < Rank(JsonKey(data[q][1]))}) = n - 1
        IN  <<JsonKey(data[p][1]), JsonValue(data[p][2])>>]

\* the operands of the first comparison that raises: the later item is the
\* left one, and only an int key in front is met as the earlier item
SortErrorMessage(data) ==
    IF data[1][1] \in IntKeys
    THEN "'<' not supported between instances of 'str' and 'int'"
    ELSE "'<' not supported between instances of 'int' and 'str'"

\* mutant of JsonDumps: the items are written in insertion order
JsonDumpsInsertionOrder(data) ==
    [n \in 1..Len(data) |-> <<JsonKey(data[n][1]), JsonValue(data[n][2])>>]

JsonDumps(data) == SortedItems(data)

\* json.loads of a serialized mapping: str keys, native values
JsonLoads(serialized) == serialized

\* two dicts hold the same keys with the same values
SameMapping(d1, d2) ==
    {d1[n] : n \in 1..Len(d1)} = {d2[n] : n \in 1..Len(d2)}

\* hashlib.sha256(...).hexdigest(); the digest is taken to be collision-free,
\* so it is represented by the text it digests
\* mutant of Sha256: a digest that tells apart only the number of items
Sha256OfLength(serialized) == <<"sha256", Len(serialized)>>

Sha256(serialized) == <<"sha256", serialized>>

\* AuditHashValidator.compute_audit_hash; raised: json.dumps raised TypeError
compute_audit_hash(data) ==
    IF SortKeysRaises(data)
    THEN [raised |-> TRUE, error |-> SortErrorMessage(data)]
    ELSE [raised |-> FALSE, value |-> Sha256(JsonDumps(data))]

\* mutant of ResultGet: an absent key gives the empty string
ResultGetEmptyString(result, k) == IF k \in DOMAIN result THEN result[k] ELSE "\"\""

\* result.get(k): None (JSON null) when the key is absent
ResultGet(result, k) == IF k \in DOMAIN result THEN result[k] ELSE "null"

\* mutant of ExpectedData: the confidence of the result is not laid over
ExpectedDataWithoutConfidence(result, original_transaction) ==
    DictSet(DictSet(original_transaction,
        "exception_flag", ResultGet(result, "exception_flag")),
        "reason_code", ResultGet(result, "reason_code"))

\* {**original_transaction, "exception_flag": ..., "reason_code": ..., "confidence": ...}
ExpectedData(result, original_transaction) ==
    DictSet(DictSet(DictSet(original_transaction,
        "exception_flag", ResultGet(result, "exception_flag")),
        "reason_code", ResultGet(result, "reason_code")),
        "confidence", ResultGet(result, "confidence"))

\* mutant of validate_result: the hash is computed before the field is looked for
validate_result_hash_first(result, original_transaction) ==
    LET computed_hash == compute_audit_hash(ExpectedData(result, original_transaction))
    IN  IF computed_hash.raised
        THEN [raised |-> TRUE, error |-> computed_hash.error]
        ELSE IF "audit_hash" \notin DOMAIN result
        THEN [raised |-> FALSE, value |-> FALSE]
        ELSE [raised |-> FALSE, value |-> (computed_hash.value = result["audit_hash"])]

\* AuditHashValidator.validate_result
validate_result(result, original_transaction) ==
    IF "audit_hash" \notin DOMAIN result
    THEN [raised |-> FALSE, value |-> FALSE]
    ELSE LET computed_hash == compute_audit_hash(ExpectedData(result, original_transaction))
         IN  IF computed_hash.raised
             THEN [raised |-> TRUE, error |-> computed_hash.error]
             ELSE [raised |-> FALSE, value |-> (computed_hash.value = result["audit_hash"])]

(***************************************************************************)
(* The remote service and the transport (session.post): what a request     *)
(* carrying `batch` can be answered with.                                  *)
(***************************************************************************)
\* the transaction as the service receives it: requests writes the json
\* without sort_keys, so an int key arrives as a str
Wire(txn) == [n \in 1..Len(txn) |-> <<JsonKey(txn[n][1]), txn[n][2]>>]

\* the k-th result object of an answer (k counted from 1); an honest service
\* hashes the transaction input + prediction output, a tampered answer
\* carries the digest of something else
ServerResult(txn, k, honest) ==
    LET prediction == [exception_flag |-> IF k % 2 = 0 THEN "true" ELSE "false",
                       reason_code |-> "\"FX_MISMATCH\"",
                       confidence |-> "0." \o ToString(k)]
    IN  [audit_hash |-> IF honest
                        THEN Sha256(JsonDumps(ExpectedData(prediction, Wire(txn))))
                        ELSE Sha256(<<>>),
         exception_flag |-> prediction.exception_flag,
         reason_code |-> prediction.reason_code,
         confidence |-> prediction.confidence]

\* a result object without its audit_hash
Malformed(result) == [k \in DOMAIN result \ {"audit_hash"} |-> result[k]]

\* a result object for a transaction that was never sent
SpareResult(k) == ServerResult(<<>>, k, FALSE)

\* a JSON array of n result objects answering `batch`; the object at position
\* bad (0: none) lacks its audit_hash
ResultArray(batch, n, bad, honest) ==
    [k \in 1..n |->
        LET r == IF k <= Len(batch) THEN ServerResult(batch[k], k, honest)
                 ELSE SpareResult(k)
        IN  IF k = bad THEN Malformed(r) ELSE r]

\* session.post raises: connection failure, timeout, retries exhausted
TransportErrors == {"Connection refused"}

\* the lengths of the arrays a 200 answer to a batch of m transactions carries
ArrayLengths(m) == {n \in {0, m - 1, m, m + 1} : n >= 0}

\* 200 answers. text "json": the body decodes to `json`; "garbage": the body is
\* no JSON and response.json() raises
OkResponses(batch) ==
    {[status_code |-> 200, text |-> "json", json |-> ResultArray(batch, n, bad, honest)] :
        n \in ArrayLengths(Len(batch)), bad \in {0, 1}, honest \in BOOLEAN}
    \cup {[status_code |-> 200, text |-> "garbage", json |-> <<>>]}

\* non-200 answers that reach process_batch. text "": empty body
ErrorResponses ==
    {[status_code |-> 400, text |-> "json", json |-> [detail |-> "Invalid transaction payload"]],
     [status_code |-> 400, text |-> "json", json |-> [message |-> "bad request"]],
     [status_code |-> 401, text |-> "", json |-> [message |-> ""]],
     [status_code |-> 404, text |-> "garbage", json |-> [message |-> ""]]}

\* answers of an overloaded service
OverloadResponses ==
    {[status_code |-> 429, text |-> "json", json |-> [detail |-> "Rate limit exceeded"]],
     [status_code |-> 503, text |-> "", json |-> [message |-> ""]]}

\* mutant of status_forcelist: 429 is left out
status_forcelist_without_429 == {500, 502, 503, 504}

\* status_forcelist of the Retry mounted on the session
status_forcelist == {429, 500, 502, 503, 504}

\* the status recorded for a request that got no response
NoResponse == 0

\* the message of the RetryError session.post raises when the last retry
\* allowed ends with a status of the forcelist (the pool and url prefix
\* of the library's text is left out)
RetryErrorMessage(status) ==
    "Max retries exceeded (Caused by ResponseError('too many "
        \o ToString(status) \o " error responses'))"

\* response.json() on a body that is no JSON
JSONDecodeError == "Expecting value: line 1 column 1 (char 0)"

(***************************************************************************)
(* BatchProcessor.process_batch                                            *)
(***************************************************************************)
\* error_detail of process_batch, for a body with text
ErrorDetail(response) ==
    IF "detail" \in DOMAIN response.json THEN response.json["detail"] ELSE "Unknown error"

\* the message of the RequestException raised for a non-200 answer
BatchFailedMessage(batch_id, response, error_detail) ==
    "Batch " \o ToString(batch_id) \o " failed with status "
        \o ToString(response.status_code) \o ": " \o error_detail

\* the transaction_id of the result at 0-based position idx of a batch
TransactionId(txn, batch_id, idx) ==
    Get(txn, "transaction_id", "txn_" \o ToString(batch_id) \o "_" \o ToString(idx))

\* the first pair of zip(transactions, results_json) whose result lacks a
\* field read by subscript (0: none)
FirstKeyError(batch, results_json) ==
    LET n == Min(Len(batch), Len(results_json))
        missing == {k \in 1..n :
                      {"audit_hash", "exception_flag", "reason_code", "confidence"}
                          \ DOMAIN results_json[k] # {}}
    IN  IF missing = {} THEN 0 ELSE CHOOSE k \in missing : \A l \in missing : k <= l

TransactionResult(txn, result, batch_id, idx) ==
    [transaction_id |-> TransactionId(txn, batch_id, idx),
     audit_hash |-> result["audit_hash"],
     exception_flag |-> result["exception_flag"],
     reason_code |-> result["reason_code"],
     confidence |-> result["confidence"],
     explainability_features |-> IF "explainability_features" \in DOMAIN result
                                 THEN result["explainability_features"] ELSE "{}"]

\* mutant of ZipResults: the response array is walked from its end
ZipResultsReversed(batch, results_json, batch_id) ==
    [k \in 1..Min(Len(batch), Len(results_json)) |->
        TransactionResult(batch[k], results_json[Len(results_json) + 1 - k], batch_id, k - 1)]

\* the results list built by the zip loop: one record per pair, in order
ZipResults(batch, results_json, batch_id) ==
    [k \in 1..Min(Len(batch), Len(results_json)) |->
        TransactionResult(batch[k], results_json[k], batch_id, k - 1)]

\* mutant of Throughput: only a zero duration is kept from the division
ThroughputOfNonZero(count, duration) ==
    IF duration # 0 THEN <<count, duration>> ELSE Zero

\* count / duration if duration > 0 else 0
Throughput(count, duration) ==
    IF duration > 0 THEN Divide(count, duration) ELSE Zero

\* the timing fields of the BatchResult returned for `batch`; duration is
\* time.time() - start_time
BatchTiming(batch, batch_id, duration) ==
    [batch_id |-> batch_id,
     total_transactions |-> Len(batch),
     duration_seconds |-> duration,
     throughput |-> Throughput(Len(batch), duration)]

\* process_batch once session.post has returned `response`
ProcessResponse(batch, batch_id, response) ==
    IF response.status_code # 200
    THEN IF response.text = ""
         THEN [raised |-> TRUE, error |-> BatchFailedMessage(batch_id, response, "No response")]
         ELSE IF response.text = "garbage"
         THEN [raised |-> TRUE, error |-> JSONDecodeError]
         ELSE [raised |-> TRUE,
               error |-> BatchFailedMessage(batch_id, response, ErrorDetail(response))]
    ELSE IF response.text # "json"
    THEN [raised |-> TRUE, error |-> JSONDecodeError]
    ELSE IF FirstKeyError(batch, response.json) # 0
    THEN [raised |-> TRUE, error |-> "'audit_hash'"]
    ELSE [raised |-> FALSE,
          batch_id |-> batch_id,
          total_transactions |-> Len(batch),
          successful |-> Len(ZipResults(batch, response.json, batch_id)),
          failed |-> 0,
          results |-> ZipResults(batch, response.json, batch_id)]

(***************************************************************************)
(* The inputs enumerated.                                                  *)
(***************************************************************************)
\* the n-th transaction of a list; with_id: it has a transaction_id;
\* int_key: it also has an int key, which json.dumps cannot sort
MakeTxn(n, with_id, int_key) ==
    (IF with_id THEN << <<"transaction_id", "\"T" \o ToString(n) \o "\"">> >> ELSE <<>>)
    \o << <<"sequence_id", ToString(n)>> >>
    \o (IF int_key THEN << <<"int:1", "\"memo\"">> >> ELSE <<>>)

\* pattern "ids": every transaction has a transaction_id; "mixed": those at
\* odd positions have none.  int_key_at: the position of the transaction
\* with an int key (0: none)
MakeList(len, pattern, int_key_at) ==
    [n \in 1..len |-> MakeTxn(n, pattern = "ids" \/ n % 2 = 0, n = int_key_at)]

\* the batch_size arguments enumerated: non-positive, small, and above the ceiling
RequestedSizes == (-1..MaxBatch) \cup {MaxBatchSize + 1}

\* the list lengths enumerated exhaustively
ShortLengths == 0..MaxLen

\* the 2,500 transactions of the documented scenario
ScenarioLengths == {2500}

\* a list one longer than the ceiling of the batch size
CapLengths == {MaxBatchSize + 1}

TransactionLists(len) ==
    IF len <= MaxLen
    THEN {MakeList(len, pattern, k) : pattern \in {"ids", "mixed"}, k \in {0, len}}
    ELSE {MakeList(len, "ids", 0)}

\* the differences of two readings of time.time(): the wall clock may stand
\* still or be set back between them
Durations == -1..MaxElapsed

\* a clock that advances by one tick between any two readings
UnitDurations == {1}

\* the batch sizes and list lengths enumerated with the clock: up to two batches
TimedSizes == {MaxTimedLen - 1, MaxTimedLen}

TimedLengths == 0..MaxTimedLen

\* the answers enumerated for a batch: every answer for a short batch, a
\* representative of each class for a long one
PostErrors(batch) == TransportErrors

PostErrorResponses(batch) ==
    IF Len(batch) <= MaxLen THEN ErrorResponses
    ELSE {r \in ErrorResponses : "detail" \in DOMAIN r.json}

\* the non-200 answers the transport retries, and those it hands to process_batch
RetriedResponses(batch) ==
    {r \in PostErrorResponses(batch) \cup OverloadResponses :
        r.status_code \in status_forcelist}

DeliveredErrorResponses(batch) ==
    {r \in PostErrorResponses(batch) \cup OverloadResponses :
        r.status_code \notin status_forcelist}

PostOkResponses(batch) ==
    IF Len(batch) <= MaxLen THEN OkResponses(batch)
    ELSE {[status_code |-> 200, text |-> "json", json |-> ResultArray(batch, n, 0, TRUE)] :
            n \in {Len(batch) - 1, Len(batch)}}

(***************************************************************************)
(* BatchProcessor.__init__                                                 *)
(***************************************************************************)
\* mutant of EnforcedBatchSize: the request is taken as it is
EnforcedBatchSizeUncapped(requested) == requested

\* self.batch_size = min(batch_size, 5000)
EnforcedBatchSize(requested) == Min(requested, MaxBatchSize)

\* the state after BatchProcessor(api_url, batch_size=requested, ...)
Processor(requested, retries) ==
    /\ requested_batch_size = requested
    /\ max_retries = retries
    /\ batch_size = EnforcedBatchSize(requested_batch_size)
    /\ has_callback \in BOOLEAN
    /\ pc = "idle"
    /\ transactions = <<>>
    /\ validate_audit_hash = FALSE
    /\ total = 0
    /\ i = 0
    /\ all_results = <<>>
    /\ failed_batches = <<>>
    /\ in_flight = {}
    /\ tries = 0
    /\ exchanges = <<>>
    /\ submissions = <<>>
    /\ attempts = <<>>
    /\ progress_calls = <<>>
    /\ warnings = <<>>
    /\ summary = None
    /\ batch_results = <<>>

\* AuditHashValidator is not used on its own
NoValidation ==
    /\ validator_pc = "unused"
    /\ caller_result = <<>>
    /\ caller_original = <<>>
    /\ hash_value = <<>>
    /\ verdict = <<>>
    /\ change = <<>>

\* a processor constructed directly by the caller, its max_retries being 0:
\* session.post raises at the first failure of the transport
Constructed(sizes) ==
    /\ client_batch_size = <<>>
    /\ \E requested \in sizes : Processor(requested, 0)
    /\ NoValidation

Init == Constructed(RequestedSizes)

\* the processor of the documented scenario: the default batch size
InitScenario == Constructed({DefaultBatchSize})

\* KoshaClient.__init__ stores its batch_size argument as it is given
ClientBatchSize(requested) == requested

\* KoshaClient.reconcile_batch: the processor is built from the client's
\* own batch size
ReconcileBatch(sizes) ==
    /\ \E requested \in sizes : client_batch_size = <<ClientBatchSize(requested)>>
    /\ Processor(client_batch_size[1], 0)
    /\ NoValidation

\* the batch_size arguments above the ceiling
OversizeRequests == {MaxBatchSize + 1}

\* the batch sizes and list lengths enumerated with retries: one or two batches
RetrySizes == {MaxRetryLen - 1, MaxRetryLen}

RetryLengths == 1..MaxRetryLen

\* a processor whose transport retries up to max_retries times
InitRetry ==
    /\ client_batch_size = <<>>
    /\ \E requested \in RetrySizes, retries \in 0..MaxRetries :
         Processor(requested, retries)
    /\ NoValidation

\* a processor asked for more than the ceiling, directly or through a client
InitCap == Constructed(OversizeRequests) \/ ReconcileBatch(OversizeRequests)

(***************************************************************************)
(* BatchProcessor.process_all                                              *)
(***************************************************************************)
\* range(0, total, self.batch_size) raises ValueError for a zero step
RangeRaises == batch_size = 0

\* the for loop has a next value of i
LoopContinues == batch_size > 0 /\ i < total

\* mutant of BatchId: the id is taken from the offset, not the window index
BatchIdOfOffset == i + 1

\* batch_id = (i // self.batch_size) + 1
BatchId == (i \div batch_size) + 1

\* mutant of Batch: the slice runs one element into the next window
BatchOverlapping == SubSeq(transactions, i + 1, Min(i + batch_size + 1, total))

\* batch = transactions[i : i + self.batch_size]
Batch == SubSeq(transactions, i + 1, Min(i + batch_size, total))

\* mutant of ProgressCount: the window size is added, not the batch length
ProgressCountByWindow == i + batch_size

\* the count handed to the progress callback: i + len(batch)
ProgressCount == i + Len(Batch)

\* the dictionary handed to validate_result for a TransactionResult
ResultDict(result) ==
    [audit_hash |-> result.audit_hash,
     exception_flag |-> result.exception_flag,
     reason_code |-> result.reason_code,
     confidence |-> result.confidence]

\* the positions of the results whose validation raises
ValidationRaisesAt(batch, results) ==
    {j \in 1..Len(results) : validate_result(ResultDict(results[j]), batch[j]).raised}

\* invalid_hashes: the transaction ids of the results whose verdict is false
InvalidHashes(batch, results) ==
    LET bad == {j \in 1..Len(results) :
                  ~validate_result(ResultDict(results[j]), batch[j]).value}
        Nth(n) == CHOOSE j \in bad : Cardinality({l \in bad : l < j}) = n - 1
    IN  [n \in 1..Cardinality(bad) |-> results[Nth(n)].transaction_id]

\* mutant of FailedBatch: the 0-based window index is recorded as the id
FailedBatchZeroBased(batch_id, error) == [batch_id |-> batch_id - 1, error |-> error]

\* the entry of the except clause
FailedBatch(batch_id, error) == [batch_id |-> batch_id, error |-> error]

\* the record of a batch attempt. stage: where the exception arose ("ok": nowhere)
Attempt(stage, error, n_results) ==
    [batch_id |-> BatchId, size |-> Len(Batch), stage |-> stage, error |-> error,
     results |-> n_results]

\* process_all is entered with a list of one of the lengths and a flag
Enter(lengths) ==
    /\ pc = "idle"
    /\ \E len \in lengths :
         \E txns \in TransactionLists(len) :
           /\ transactions' = txns
           /\ total' = Len(txns)
    /\ validate_audit_hash' \in BOOLEAN
    /\ all_results' = <<>>
    /\ failed_batches' = <<>>
    /\ i' = 0
    /\ pc' = IF RangeRaises THEN "raised" ELSE "loop"
    /\ UNCHANGED <<config, validator, in_flight, tries, exchanges,
                   submissions, attempts, progress_calls, warnings, summary, batch_results>>

ProcessAllStart == Enter(ShortLengths)

ProcessScenarioStart == Enter(ScenarioLengths)

ProcessCapStart == Enter(CapLengths)

ProcessRetryStart == Enter(RetryLengths)

ProcessTimedStart == Enter(TimedLengths)

\* the loop body up to the call of session.post inside process_batch
Submit ==
    /\ pc = "loop"
    /\ LoopContinues
    /\ in_flight' = in_flight \cup {BatchId}
    /\ submissions' = Append(submissions, [batch_id |-> BatchId, transactions |-> Batch])
    /\ pc' = "await"
    /\ UNCHANGED <<config, validator, transactions,
                   validate_audit_hash, total, i, all_results, failed_batches,
                   tries, exchanges, attempts, progress_calls, warnings, summary, batch_results>>

\* the except clause, entered with exception message `error`
Except(stage, error, n_results) ==
    /\ failed_batches' = Append(failed_batches, FailedBatch(BatchId, error))
    /\ attempts' = Append(attempts, Attempt(stage, error, n_results))

\* mutant of NextIteration: the loop moves on while the request is still out
NextIterationWithoutWaiting ==
    /\ i' = i + batch_size
    /\ in_flight' = in_flight
    /\ tries' = 0
    /\ pc' = "loop"

\* session.post has returned or raised: the for loop takes its next value
NextIteration ==
    /\ i' = i + batch_size
    /\ in_flight' = in_flight \ {BatchId}
    /\ tries' = 0
    /\ pc' = "loop"

\* the request in flight is answered with `status` (NoResponse: not at all)
Answered(status) ==
    exchanges' = Append(exchanges, [batch_id |-> BatchId, status |-> status])

\* the transport fails or is answered with a status of the forcelist while
\* retries are left: the request is sent again, inside session.post
TransportRetry ==
    /\ pc = "await"
    /\ tries < max_retries
    /\ \E status \in {r.status_code : r \in RetriedResponses(Batch)} \cup {NoResponse} :
         Answered(status)
    /\ tries' = tries + 1
    /\ UNCHANGED <<config, validator, pc, transactions, validate_audit_hash, total, i,
                   all_results, failed_batches, in_flight, submissions, attempts,
                   progress_calls, warnings, summary, batch_results>>

\* the last retry allowed is answered with a status of the forcelist:
\* session.post raises RetryError
RetriesExhausted ==
    /\ pc = "await"
    /\ tries = max_retries
    /\ \E response \in RetriedResponses(Batch) :
         /\ Answered(response.status_code)
         /\ Except("post", RetryErrorMessage(response.status_code), 0)
    /\ NextIteration
    /\ UNCHANGED <<config, validator, transactions,
                   validate_audit_hash, total, all_results, submissions,
                   progress_calls, warnings, summary, batch_results>>

\* session.post raises: the transport failed and no retry is left
PostRaises ==
    /\ pc = "await"
    /\ tries = max_retries
    /\ \E error \in PostErrors(Batch) : Except("post", error, 0)
    /\ Answered(NoResponse)
    /\ NextIteration
    /\ UNCHANGED <<config, validator, transactions,
                   validate_audit_hash, total, all_results, submissions,
                   progress_calls, warnings, summary, batch_results>>

\* session.post returns a non-200 response
PostErrorStatus ==
    /\ pc = "await"
    /\ \E response \in DeliveredErrorResponses(Batch) :
         /\ Answered(response.status_code)
         /\ Except("process_batch", ProcessResponse(Batch, BatchId, response).error, 0)
    /\ NextIteration
    /\ UNCHANGED <<config, validator, transactions,
                   validate_audit_hash, total, all_results, submissions,
                   progress_calls, warnings, summary, batch_results>>

\* mutant of Extend: the batch's results are put in front
ExtendInFront(results) == results \o all_results

\* the results list after all_results.extend(batch_result.results)
Extend(results) == all_results \o results

\* the rest of the try block once process_batch has returned batch_result:
\* where it ends and what it leaves. callback_raises: the progress callback,
\* if invoked, raises; validate: the validate_audit_hash argument
TryBlock(batch_result, callback_raises, validate) ==
    LET results == batch_result.results
        raising == IF validate THEN ValidationRaisesAt(Batch, results) ELSE {}
        invalid == InvalidHashes(Batch, results)
    IN  IF raising # {}
        THEN [stage |-> "validate",
              error |-> validate_result(ResultDict(results[CHOOSE j \in raising : TRUE]),
                                        Batch[CHOOSE j \in raising : TRUE]).error,
              all_results |-> Extend(results),
              warnings |-> warnings,
              progress_calls |-> progress_calls]
        ELSE [stage |-> IF has_callback /\ callback_raises THEN "callback" ELSE "ok",
              error |-> IF has_callback /\ callback_raises THEN "callback failed" ELSE "",
              all_results |-> Extend(results),
              warnings |-> IF validate /\ invalid # <<>>
                           THEN Append(warnings, [batch_id |-> BatchId, invalid |-> invalid])
                           ELSE warnings,
              progress_calls |-> IF has_callback
                                 THEN Append(progress_calls, <<ProgressCount, total>>)
                                 ELSE progress_calls]

\* failed_batches once the try block has ended as `after`
FailedBatchesAfter(after) ==
    IF after.stage = "ok" THEN failed_batches
    ELSE Append(failed_batches, FailedBatch(BatchId, after.error))

AfterBatch(batch_result, callback_raises) ==
    \E after \in {TryBlock(batch_result, callback_raises, validate_audit_hash)} :
        /\ all_results' = after.all_results
        /\ warnings' = after.warnings
        /\ progress_calls' = after.progress_calls
        /\ IF after.stage = "ok"
           THEN /\ attempts' = Append(attempts, Attempt("ok", "", Len(batch_result.results)))
                /\ UNCHANGED failed_batches
           ELSE Except(after.stage, after.error, Len(batch_result.results))

\* session.post returns a 200 response, one of `durations` after start_time
Post200(durations) ==
    /\ pc = "await"
    /\ \E response \in PostOkResponses(Batch), callback_raises \in BOOLEAN,
          duration \in durations :
         LET batch_result == ProcessResponse(Batch, BatchId, response)
         IN  /\ callback_raises => has_callback
             /\ IF batch_result.raised
                THEN /\ Except("process_batch", batch_result.error, 0)
                     /\ UNCHANGED <<all_results, progress_calls, warnings, batch_results>>
                ELSE /\ AfterBatch(batch_result, callback_raises)
                     /\ batch_results' =
                            Append(batch_results, BatchTiming(Batch, BatchId, duration))
    /\ Answered(200)
    /\ NextIteration
    /\ UNCHANGED <<config, validator, transactions,
                   validate_audit_hash, total, submissions, summary>>

PostOk == Post200(UnitDurations)

PostOkTimed == Post200(Durations)

\* the dictionary returned; total_time is time.time() - start_time
Summary(total_time) ==
    [total_transactions |-> total,
     successful |-> Len(all_results),
     failed |-> total - Len(all_results),
     failed_batches |-> failed_batches,
     total_time |-> total_time,
     throughput |-> Throughput(total, total_time),
     results |-> all_results]

\* the loop is exhausted: process_all returns, one of `durations` after
\* its start_time
Finish(durations) ==
    /\ pc = "loop"
    /\ ~LoopContinues
    /\ \E total_time \in durations : summary' = Summary(total_time)
    /\ pc' = "done"
    /\ UNCHANGED <<config, validator, transactions,
                   validate_audit_hash, total, i, all_results, failed_batches,
                   in_flight, tries, exchanges, submissions, attempts,
                   progress_calls, warnings, batch_results>>

Return == Finish(UnitDurations)

ReturnTimed == Finish(Durations)

Next ==
    \/ ProcessAllStart
    \/ Submit
    \/ PostRaises
    \/ PostErrorStatus
    \/ PostOk
    \/ Return

Spec == Init /\ [][Next]_vars

\* the documented scenario: 2,500 transactions, batch size 1000
NextScenario ==
    \/ ProcessScenarioStart
    \/ Submit
    \/ PostRaises
    \/ PostErrorStatus
    \/ PostOk
    \/ Return

SpecScenario == InitScenario /\ [][NextScenario]_vars

\* batch sizes above the ceiling, on a list longer than the ceiling
NextCap ==
    \/ ProcessCapStart
    \/ Submit
    \/ PostRaises
    \/ PostErrorStatus
    \/ PostOk
    \/ Return

SpecCap == InitCap /\ [][NextCap]_vars

\* the retries of the transport as steps of their own
NextRetry ==
    \/ ProcessRetryStart
    \/ Submit
    \/ TransportRetry
    \/ RetriesExhausted
    \/ PostRaises
    \/ PostErrorStatus
    \/ PostOk
    \/ Return

SpecRetry == InitRetry /\ [][NextRetry]_vars

\* the readings of the clock enumerated
InitTimed == Constructed(TimedSizes)

NextTimed ==
    \/ ProcessTimedStart
    \/ Submit
    \/ PostRaises
    \/ PostErrorStatus
    \/ PostOkTimed
    \/ ReturnTimed

SpecTimed == InitTimed /\ [][NextTimed]_vars

(***************************************************************************)
(* AuditHashValidator used on its own: a caller computes the hash of an    *)
(* original transaction, validates a result against it and, after a true   *)
(* verdict, changes one field and validates again.                         *)
(***************************************************************************)
Absent == "absent"

\* the three fields of the result that are laid over the original
PredictionFields == {"exception_flag", "reason_code", "confidence"}

\* the values enumerated for a field of the original transaction
OriginalValues(key) ==
    CASE key = "transaction_id" -> {"\"T1\""}
      [] key = "sequence_id" -> {"1", "\"1\"", "Decimal('1')"}
      [] key = "confidence" -> {"0.5", "0.9"}
      [] key = "exception_flag" -> {"false"}
      [] key = "reason_code" -> {"null", "\"NONE\""}
      [] key = "int:1" -> {"\"memo\""}

\* the values enumerated for a field of the result
ResultValues(key) ==
    CASE key = "exception_flag" -> {"false", "true"}
      [] key = "reason_code" -> {"\"NONE\""}
      [] key = "confidence" -> {"0.5", "0.9"}

\* the items of a dict with one key, or with none
Field(key, value) == IF value = Absent THEN <<>> ELSE << <<key, value>> >>

Reverse(d) == [n \in 1..Len(d) |-> d[Len(d) + 1 - n]]

\* an original transaction with the fields given, inserted in this order or
\* in the opposite one
MakeOriginal(sequence_id, confidence, exception_flag, reason_code, int_key, reversed) ==
    LET d == Field("transaction_id", "\"T1\"") \o Field("sequence_id", sequence_id)
             \o Field("confidence", confidence) \o Field("exception_flag", exception_flag)
             \o Field("reason_code", reason_code) \o Field("int:1", int_key)
    IN  IF reversed THEN Reverse(d) ELSE d

Originals ==
    {MakeOriginal(s, c, e, r, k, reversed) :
        s \in OriginalValues("sequence_id") \cup {Absent},
        c \in OriginalValues("confidence") \cup {Absent},
        e \in OriginalValues("exception_flag") \cup {Absent},
        r \in OriginalValues("reason_code") \cup {Absent},
        k \in OriginalValues("int:1") \cup {Absent},
        reversed \in BOOLEAN}

\* the prediction part of a result: the fields present
MakePrediction(exception_flag, reason_code, confidence) ==
    LET all == [exception_flag |-> exception_flag, reason_code |-> reason_code,
                confidence |-> confidence]
    IN  [k \in {f \in DOMAIN all : all[f] # Absent} |-> all[k]]

Predictions ==
    {MakePrediction(e, r, c) :
        e \in ResultValues("exception_flag") \cup {Absent},
        r \in ResultValues("reason_code") \cup {Absent},
        c \in ResultValues("confidence") \cup {Absent}}

\* the result with its audit_hash set
WithHash(prediction, audit_hash) ==
    [k \in DOMAIN prediction \cup {"audit_hash"} |->
        IF k = "audit_hash" THEN audit_hash ELSE prediction[k]]

\* the audit hashes a result for `original` may carry: the one of the
\* service (transaction input + prediction output), the one of the original
\* alone, and one of something else
AuditHashes(prediction, original) ==
    {Sha256(<<>>)}
    \cup (IF SortKeysRaises(original) THEN {} ELSE {Sha256(JsonDumps(original))})
    \cup (IF SortKeysRaises(ExpectedData(prediction, original)) THEN {}
          ELSE {Sha256(JsonDumps(ExpectedData(prediction, original)))})

\* the results a caller may hold for `original`, with and without audit_hash
ResultsFor(original) ==
    UNION {{prediction} \cup {WithHash(prediction, h) : h \in AuditHashes(prediction, original)} :
              prediction \in Predictions}

\* the caller holds an original transaction and a result
InitValidator ==
    /\ client_batch_size = <<>>
    /\ Processor(DefaultBatchSize, 0)
    /\ has_callback = FALSE
    /\ validator_pc = "ready"
    /\ caller_original \in Originals
    /\ caller_result \in ResultsFor(caller_original)
    /\ hash_value = <<>>
    /\ verdict = <<>>
    /\ change = <<>>

processor == <<pc, transactions, validate_audit_hash, total, i, all_results,
               failed_batches, in_flight, tries, exchanges, submissions, attempts,
               progress_calls, warnings, summary, batch_results>>

\* AuditHashValidator.compute_audit_hash(caller_original)
ComputeHash ==
    /\ validator_pc = "ready"
    /\ hash_value' = compute_audit_hash(caller_original)
    /\ validator_pc' = "hashed"
    /\ UNCHANGED <<config, processor, caller_result, caller_original, verdict, change>>

\* AuditHashValidator.validate_result(caller_result, caller_original)
Validate ==
    /\ validator_pc \in {"hashed", "changed"}
    /\ verdict' = validate_result(caller_result, caller_original)
    /\ validator_pc' = IF validator_pc = "hashed" THEN "validated" ELSE "revalidated"
    /\ UNCHANGED <<config, processor, caller_result, caller_original, hash_value, change>>

\* after a true verdict the caller changes the value of one field of the
\* original transaction, the audit_hash staying as it is
ChangeOriginal ==
    /\ validator_pc = "validated"
    /\ ~verdict.raised
    /\ verdict.value
    /\ \E n \in 1..Len(caller_original) :
         \E new \in OriginalValues(caller_original[n][1]) \ {caller_original[n][2]} :
           /\ caller_original' = [caller_original EXCEPT ![n] = <<caller_original[n][1], new>>]
           /\ change' = [of |-> "original", key |-> caller_original[n][1],
                         old |-> caller_original[n][2], new |-> new]
    /\ validator_pc' = "changed"
    /\ UNCHANGED <<config, processor, caller_result, hash_value, verdict>>

\* after a true verdict the caller changes the exception_flag, reason_code
\* or confidence of the result, the audit_hash staying as it is
ChangeResult ==
    /\ validator_pc = "validated"
    /\ ~verdict.raised
    /\ verdict.value
    /\ \E key \in PredictionFields :
         \E new \in (ResultValues(key) \cup {"\"FX_MISMATCH\""}) \ {ResultGet(caller_result, key)} :
           /\ caller_result' = [k \in DOMAIN caller_result \cup {key} |->
                                   IF k = key THEN new ELSE caller_result[k]]
           /\ change' = [of |-> "result", key |-> key,
                         old |-> ResultGet(caller_result, key), new |-> new]
    /\ validator_pc' = "changed"
    /\ UNCHANGED <<config, processor, caller_original, hash_value, verdict>>

NextValidator ==
    \/ ComputeHash
    \/ Validate
    \/ ChangeOriginal
    \/ ChangeResult

SpecValidator == InitValidator /\ [][NextValidator]_vars

(***************************************************************************)
(* Properties.                                                             *)
(***************************************************************************)
\* the number of windows of the input: ceil(N / B)
NumBatches == CeilDiv(total, batch_size)

\* the chunks submitted, in submission order
Chunks == [n \in 1..Len(submissions) |-> submissions[n].transactions]

\* the batch ids listed in failed_batches
FailedIds == {failed_batches[n].batch_id : n \in 1..Len(failed_batches)}

\* the attempt made for batch id k
AttemptOf(k) == attempts[CHOOSE n \in 1..Len(attempts) : attempts[n].batch_id = k]

\* the number of transactions in the batches listed in failed_batches
FailedItems == SumSeq([n \in 1..Len(failed_batches) |-> AttemptOf(failed_batches[n].batch_id).size])

\* process_batch raised for this attempt (in session.post or after it)
ProcessBatchRaised(a) == a.stage \in {"post", "process_batch"}

\* C1: with N transactions and batch size B >= 1, a finished run has made
\* exactly ceil(N/B) submissions, each of at most B transactions, and the
\* chunks in submission order concatenate to the input list, whatever the
\* outcome of each submission
C1_Partition ==
    (pc = "done" /\ batch_size >= 1) =>
        /\ Len(submissions) = NumBatches
        /\ \A n \in 1..Len(submissions) : Len(Chunks[n]) <= batch_size
        /\ Flatten(Chunks) = transactions

\* a finished run of several batches with an uneven last chunk and a failure
C1_Witness ==
    /\ pc = "done"
    /\ Len(submissions) = 2
    /\ total = 3
    /\ batch_size = 2
    /\ failed_batches # <<>>

\* C2: whenever process_batch raised for batch k, failed_batches holds exactly
\* one entry with batch_id k, its error is the message of the exception, and
\* a finished run has submitted every later batch k+1 .. ceil(N/B)
C2_FailureRecorded ==
    \A n \in 1..Len(attempts) :
        ProcessBatchRaised(attempts[n]) =>
            /\ Cardinality({m \in 1..Len(failed_batches) :
                   failed_batches[m].batch_id = attempts[n].batch_id}) = 1
            /\ \E m \in 1..Len(failed_batches) :
                   failed_batches[m] = [batch_id |-> attempts[n].batch_id,
                                        error |-> attempts[n].error]
            /\ attempts[n].batch_id = n
            /\ pc = "done" =>
                   \A k \in (n + 1)..NumBatches :
                       \E m \in 1..Len(submissions) : submissions[m].batch_id = k

\* the first of three batches failed in the transport and the run finished
C2_Witness ==
    /\ pc = "done"
    /\ Len(attempts) = 3
    /\ attempts[1].stage = "post"
    /\ attempts[3].stage = "ok"

\* C3: a step that records a batch in failed_batches adds nothing to the
\* results and leaves the earlier results as they were
C3_FailedBatchAddsNothing ==
    [][failed_batches' # failed_batches => all_results' = all_results]_vars

\* C4: in the summary, successful plus the transactions of the batches in
\* failed_batches is N, and failed is that number of transactions
C4_Accounting ==
    (pc = "done" /\ batch_size >= 1) =>
        /\ summary.successful + FailedItems = total
        /\ summary.failed = FailedItems
        /\ (summary.failed > 0) <=> (summary.failed_batches # <<>>)

\* C5: the answer to a batch of m transactions adds m results or none
C5_AllOrNothing ==
    [][pc = "await" =>
          Len(all_results') - Len(all_results) \in {0, Len(Batch)}]_vars

\* C6: with a callback configured, a finished run has invoked it once per
\* batch attempt, ceil(N/B) times, each time with total N
C6_CallbackPerAttempt ==
    (pc = "done" /\ has_callback /\ batch_size >= 1) =>
        /\ Len(progress_calls) = NumBatches
        /\ \A n \in 1..Len(progress_calls) : progress_calls[n][2] = total

\* C7: the counts handed to the callback never decrease and never exceed N
C7_ProgressMonotone ==
    \A n \in 1..Len(progress_calls) :
        /\ progress_calls[n][1] <= total
        /\ n > 1 => progress_calls[n - 1][1] <= progress_calls[n][1]

\* the callback was invoked for the first and the last of three batches, the
\* last one partial, and the second batch failed
C7_Witness ==
    /\ Len(progress_calls) = 2
    /\ Len(attempts) = 3
    /\ attempts[2].stage = "post"
    /\ total = 3
    /\ batch_size = 2 \/ batch_size = 1
    /\ progress_calls[2][1] = total

\* C8: with a callback configured and N >= 1, the last invocation in a
\* finished run carries N
C8_LastCallCarriesTotal ==
    (pc = "done" /\ has_callback /\ batch_size >= 1 /\ total >= 1) =>
        /\ progress_calls # <<>>
        /\ progress_calls[Len(progress_calls)][1] = total

\* the batch was answered by 200 with one result per transaction, and neither
\* validation nor the callback raised
Succeeded(a) == a.stage = "ok" /\ a.results = a.size

\* the transaction_id of the input at position n (1-based) when it has one
InputId(n) == Lookup(transactions[n], "transaction_id")

\* C9: 2,500 transactions with batch size 1000 make 3 submissions of sizes
\* 1000, 1000, 500 with ids 1, 2, 3; when the first and third succeed and the
\* second fails in the transport, the summary has successful 1500, failed
\* 1000, one failed batch with id 2, and the 1500 results of inputs 1..1000
\* followed by those of inputs 2001..2500
C9_Scenario ==
    (pc = "done" /\ total = 2500 /\ batch_size = 1000) =>
        /\ [n \in 1..Len(submissions) |->
               <<submissions[n].batch_id, Len(submissions[n].transactions)>>]
             = << <<1, 1000>>, <<2, 1000>>, <<3, 500>> >>
        /\ (/\ Succeeded(attempts[1])
            /\ ProcessBatchRaised(attempts[2])
            /\ Succeeded(attempts[3]))
           => /\ summary.successful = 1500
              /\ summary.failed = 1000
              /\ summary.total_transactions = 2500
              /\ Len(summary.failed_batches) = 1
              /\ summary.failed_batches[1].batch_id = 2
              /\ summary.failed_batches[1].error = attempts[2].error
              /\ Len(summary.results) = 1500
              /\ \A k \in 1..1000 :
                     summary.results[k].transaction_id = InputId(k)
              /\ \A k \in 1001..1500 :
                     summary.results[k].transaction_id = InputId(k + 1000)

\* the scenario ran to its end with exactly the second submission failing
C9_Witness ==
    /\ pc = "done"
    /\ total = 2500
    /\ batch_size = 1000
    /\ Len(attempts) = 3
    /\ Succeeded(attempts[1])
    /\ attempts[2].stage = "post"
    /\ Succeeded(attempts[3])
    /\ Len(summary.results) = 1500

\* the number of results batch attempts 1..n added to all_results
ResultsBefore(n) == SumSeq([m \in 1..n |-> attempts[m].results])

\* the transaction_id expected of the result built from the input at offset
\* o (1-based) of batch k: the input's own, or txn_<k>_<o-1>
ExpectedId(k, o) ==
    LET txn == transactions[(k - 1) * batch_size + o]
    IN  IF HasKey(txn, "transaction_id") THEN Lookup(txn, "transaction_id")
        ELSE "txn_" \o ToString(k) \o "_" \o ToString(o - 1)

\* C10: the n-th submission is batch n, the n-th window of the input; the
\* results each batch adds are, in order, one per leading transaction of the
\* batch, each carrying that transaction's id (or the positional fallback)
\* and the fields of the response element at the same position; so results
\* is ordered like the input and every result traces back to one input
C10_Ordering ==
    batch_size >= 1 =>
        /\ \A n \in 1..Len(submissions) :
               /\ submissions[n].batch_id = n
               /\ submissions[n].transactions =
                      SubSeq(transactions, (n - 1) * batch_size + 1,
                             Min(n * batch_size, total))
        /\ Len(all_results) = ResultsBefore(Len(attempts))
        /\ \A n \in 1..Len(attempts) :
               /\ attempts[n].results <= attempts[n].size
               /\ \A o \in 1..attempts[n].results :
                      LET result == all_results[ResultsBefore(n - 1) + o]
                      IN  /\ result.transaction_id = ExpectedId(n, o)
                          /\ result.confidence = "0." \o ToString(o)
                          /\ result.exception_flag = IF o % 2 = 0 THEN "true" ELSE "false"

\* two batches of two transactions succeeded; the inputs at odd positions
\* have no transaction_id and got the positional fallback
C10_Witness ==
    /\ pc = "done"
    /\ batch_size = 2
    /\ Len(all_results) = 3
    /\ Len(attempts) = 2
    /\ attempts[1].stage = "ok"
    /\ attempts[2].stage = "ok"
    /\ all_results[1].transaction_id = "txn_1_0"
    /\ all_results[2].transaction_id = "\"T2\""
    /\ all_results[3].transaction_id = "txn_2_0"

\* the batch size the caller asked for, of the client or of the processor
RequestedBySomeone ==
    IF client_batch_size # <<>> THEN client_batch_size[1] ELSE requested_batch_size

\* C11: whatever batch size b is asked for, of a BatchProcessor or of a
\* KoshaClient used through reconcile_batch, no submission carries more than
\* min(b, 5000) transactions, and asking for more than 5000 raises nothing
C11_SilentCap ==
    /\ \A n \in 1..Len(submissions) :
         Len(submissions[n].transactions) <= Min(RequestedBySomeone, MaxBatchSize)
    /\ RequestedBySomeone > MaxBatchSize => pc # "raised"

\* a client asked for more than the ceiling has submitted 5001 transactions
\* as a batch of 5000 and a batch of 1, and the run has returned
C11_Witness ==
    /\ client_batch_size # <<>>
    /\ client_batch_size[1] > MaxBatchSize
    /\ pc = "done"
    /\ Len(submissions) = 2
    /\ Len(submissions[1].transactions) = MaxBatchSize
    /\ Len(submissions[2].transactions) = 1

\* the statuses with which the requests of batch k were answered, in order
StatusesOf(k) ==
    LET sent == {n \in 1..Len(exchanges) : exchanges[n].batch_id = k}
        Nth(m) == CHOOSE n \in sent : Cardinality({l \in sent : l < n}) = m - 1
    IN  [m \in 1..Cardinality(sent) |-> exchanges[Nth(m)].status]

\* how often a transaction id occurs among the results
Occurrences(id) ==
    Cardinality({p \in 1..Len(all_results) : all_results[p].transaction_id = id})

\* C12: a 429/500/502/503/504 answer is retried by the transport before a
\* failure reaches process_all: no batch gets more than max_retries + 1
\* requests, a batch is recorded as failed only when its max_retries + 1
\* requests are spent or its last answer was none of those statuses, and a
\* batch whose last request is answered 200 with nothing raising afterwards
\* is not recorded as failed and has each of its results in the results once
C12_RetriedBeforeFailure ==
    \A n \in 1..Len(attempts) :
        LET a == attempts[n]
            statuses == StatusesOf(a.batch_id)
            last == statuses[Len(statuses)]
        IN  /\ Len(statuses) >= 1
            /\ Len(statuses) <= max_retries + 1
            /\ a.batch_id \in FailedIds =>
                   \/ Len(statuses) = max_retries + 1
                   \/ last \notin {429, 500, 502, 503, 504}
            /\ (last = 200 /\ a.stage = "ok") =>
                   /\ a.batch_id \notin FailedIds
                   /\ \A idx \in 0..(a.results - 1) :
                          Occurrences(TransactionId(submissions[n].transactions[idx + 1],
                                                    a.batch_id, idx)) = 1

\* batch 1 was answered 503, sent again and answered 200 with both results;
\* batch 2 was answered 429 twice and recorded as failed
C12_Witness ==
    /\ pc = "done"
    /\ max_retries = 1
    /\ Len(attempts) = 2
    /\ StatusesOf(1) = <<503, 200>>
    /\ attempts[1].stage = "ok"
    /\ Occurrences("\"T1\"") = 1
    /\ StatusesOf(2) = <<429, 429>>
    /\ FailedIds = {2}

\* C13: at most one HTTP request is in flight at any time, and no request of
\* batch k+1, first or retried, is sent before batch k has been answered or
\* recorded as failed
C13_OneInFlight ==
    /\ Cardinality(in_flight) <= 1
    /\ pc = "await" =>
           /\ in_flight = {BatchId}
           /\ Len(attempts) = Len(submissions) - 1
    /\ pc # "await" =>
           /\ in_flight = {}
           /\ Len(attempts) = Len(submissions)
    /\ \A n \in 1..Len(submissions) :
           /\ submissions[n].batch_id = n
           /\ n <= Len(attempts) => attempts[n].batch_id = n
    /\ \A m, n \in 1..Len(exchanges) :
           m < n => exchanges[m].batch_id <= exchanges[n].batch_id
    /\ \A n \in 1..Len(exchanges) :
           exchanges[n].batch_id <= Len(attempts) + Cardinality(in_flight)

\* batch 1 is concluded and batch 2 is in flight, being sent a second time
C13_Witness ==
    /\ pc = "await"
    /\ in_flight = {2}
    /\ tries = 1
    /\ Len(attempts) = 1
    /\ StatusesOf(1) # <<>>
    /\ StatusesOf(2) # <<>>

\* the mapping the claims describe, listed prediction fields first: the
\* fields of the original that are none of the three, and the three fields
\* with the values of the result (null for a field the result lacks)
Overlaid(result, original) ==
    LET given(k) == IF k \in DOMAIN result THEN result[k] ELSE "null"
        NotLaidOver(item) == item[1] \notin PredictionFields
    IN  << <<"confidence", given("confidence")>>,
           <<"exception_flag", given("exception_flag")>>,
           <<"reason_code", given("reason_code")>> >>
        \o SelectSeq(original, NotLaidOver)

\* C14: validate_result returns true exactly when the result carries an
\* audit_hash equal to compute_audit_hash of the original's fields laid over
\* with the result's exception_flag, reason_code and confidence (the result's
\* values winning, null for an absent one); it raises only when that hash
\* cannot be computed
C14_VerdictIsHashEquality ==
    validator_pc \in {"validated", "revalidated"} =>
        LET expected == compute_audit_hash(Overlaid(caller_result, caller_original))
            equal == /\ "audit_hash" \in DOMAIN caller_result
                     /\ ~expected.raised
                     /\ expected.value = caller_result["audit_hash"]
        IN  IF verdict.raised
            THEN "audit_hash" \in DOMAIN caller_result /\ expected.raised
            ELSE verdict.value = equal

\* a true verdict for an original whose own confidence differs from the one
\* of the result, the result having no reason_code
C14_Witness ==
    /\ validator_pc = "validated"
    /\ ~verdict.raised
    /\ verdict.value
    /\ HasKey(caller_original, "confidence")
    /\ "confidence" \in DOMAIN caller_result
    /\ Lookup(caller_original, "confidence") # caller_result["confidence"]
    /\ "reason_code" \notin DOMAIN caller_result

\* the mapping comes back from json.loads(json.dumps(...)) as it went in
RoundTrips(data) ==
    /\ ~SortKeysRaises(data)
    /\ SameMapping(JsonLoads(JsonDumps(data)), data)

\* the result embeds compute_audit_hash(X) of the original X it is validated with
EmbedsHashOfOriginal ==
    /\ validator_pc = "validated"
    /\ RoundTrips(caller_original)
    /\ "audit_hash" \in DOMAIN caller_result
    /\ caller_result["audit_hash"] = hash_value.value

\* X holds the three prediction fields with the values of the result
OriginalHoldsPrediction ==
    \A k \in PredictionFields :
        /\ HasKey(caller_original, k)
        /\ Lookup(caller_original, k) =
               (IF k \in DOMAIN caller_result THEN caller_result[k] ELSE "null")

\* C15 as stated: for a mapping X that round-trips through the serialization,
\* validate_result of a result embedding compute_audit_hash(X), with X as the
\* original transaction, returns true
C15_RoundTrip ==
    EmbedsHashOfOriginal => (~verdict.raised /\ verdict.value)

\* C15 amended: it returns true when X itself holds exception_flag,
\* reason_code and confidence with the values the result carries (null for
\* a field the result lacks)
C15_RoundTripOfExpectedData ==
    (EmbedsHashOfOriginal /\ OriginalHoldsPrediction) => (~verdict.raised /\ verdict.value)

\* a true verdict for an X that holds the three fields, its reason_code being
\* null and the result having none
C15_Witness ==
    /\ EmbedsHashOfOriginal
    /\ OriginalHoldsPrediction
    /\ "reason_code" \notin DOMAIN caller_result
    /\ "confidence" \in DOMAIN caller_result
    /\ ~verdict.raised
    /\ verdict.value

\* the field changed is one of the expected-data mapping (not a field of the
\* original that the result's value replaces) and its new value is written
\* differently by json.dumps
ChangeShowsInSerialization ==
    /\ change.of = "result" \/ change.key \notin PredictionFields
    /\ JsonValue(change.old) # JsonValue(change.new)

\* C16 as stated: after a true verdict, changing the value of any one field
\* of the original transaction, or the result's exception_flag, reason_code
\* or confidence, with the audit_hash kept, makes validate_result return false
C16_AnyChangeDetected ==
    validator_pc = "revalidated" => (~verdict.raised /\ ~verdict.value)

\* C16 amended: the verdict becomes false when the field changed is a field
\* of the original other than those three, or one of the three of the
\* result, and the new value has a different canonical serialization
C16_SerializedChangeDetected ==
    (validator_pc = "revalidated" /\ ChangeShowsInSerialization) =>
        (~verdict.raised /\ ~verdict.value)

\* the sequence_id of the original was changed from 1 to "1" and the second
\* verdict is false
C16_Witness ==
    /\ validator_pc = "revalidated"
    /\ change.of = "original"
    /\ change.key = "sequence_id"
    /\ change.old = "1"
    /\ change.new = "\"1\""
    /\ ~verdict.raised
    /\ ~verdict.value

\* the dict with its items inserted in another order: reversed, rotated, or
\* with two neighbours swapped
Reorderings(d) ==
    {Reverse(d)}
    \cup {SubSeq(d, n + 1, Len(d)) \o SubSeq(d, 1, n) : n \in 1..Len(d)}
    \cup {[m \in 1..Len(d) |-> IF m = n THEN d[n + 1] ELSE IF m = n + 1 THEN d[n] ELSE d[m]] :
             n \in 1..(Len(d) - 1)}

\* C17: compute_audit_hash depends on the keys and values of the mapping
\* only, not on the order in which they were inserted: every reordering of
\* the mapping hashed (such as {"b": 2, "a": 1} for {"a": 1, "b": 2}) gets
\* the hash the call returned, or fails as the call did
C17_OrderIndependent ==
    validator_pc \in {"hashed", "validated"} =>
        \A d \in Reorderings(caller_original) :
            LET again == compute_audit_hash(d)
            IN  /\ SameMapping(d, caller_original)
                /\ again.raised = hash_value.raised
                /\ ~again.raised => again.value = hash_value.value

\* a hash was returned for a mapping of two keys inserted against their
\* sorted order
C17_Witness ==
    /\ validator_pc = "hashed"
    /\ ~hash_value.raised
    /\ Len(caller_original) = 2
    /\ caller_original[1][1] = "transaction_id"
    /\ caller_original[2][1] = "sequence_id"
    /\ compute_audit_hash(Reverse(caller_original)) = hash_value

\* C18: for a result without an audit_hash field validate_result returns
\* false and raises nothing, whatever the original transaction and the
\* other fields of the result are
C18_MissingHashIsFalse ==
    (validator_pc \in {"validated", "revalidated"} /\ "audit_hash" \notin DOMAIN caller_result) =>
        (~verdict.raised /\ ~verdict.value)

\* false was returned for a result without audit_hash although the original
\* has an int key next to its str keys, which json.dumps cannot sort
C18_Witness ==
    /\ validator_pc = "validated"
    /\ "audit_hash" \notin DOMAIN caller_result
    /\ DOMAIN caller_result # {}
    /\ SortKeysRaises(caller_original)
    /\ hash_value.raised
    /\ ~verdict.raised
    /\ ~verdict.value

\* C19: hash validation only observes: whatever 200 answer the batch in
\* flight gets and whether or not the callback raises, the try block run
\* with validate_audit_hash = true leaves the same results, failed_batches
\* and progress calls as run with validate_audit_hash = false
C19_ValidationObservesOnly ==
    pc = "await" =>
        \A response \in PostOkResponses(Batch), callback_raises \in BOOLEAN :
            LET batch_result == ProcessResponse(Batch, BatchId, response)
                validated == TryBlock(batch_result, callback_raises, TRUE)
                unvalidated == TryBlock(batch_result, callback_raises, FALSE)
            IN  ~batch_result.raised =>
                    /\ validated.all_results = unvalidated.all_results
                    /\ FailedBatchesAfter(validated) = FailedBatchesAfter(unvalidated)
                    /\ validated.progress_calls = unvalidated.progress_calls

\* the fraction t is not negative, is count / elapsed for a positive elapsed
\* time and 0 for an elapsed time of 0
IsThroughput(t, count, elapsed) ==
    /\ t[2] > 0
    /\ t[1] >= 0
    /\ elapsed > 0 => t[1] * elapsed = count * t[2]
    /\ elapsed = 0 => t[1] = 0

\* C20: the throughput of every BatchResult and of the summary is never
\* negative, equals count / elapsed time when the elapsed time is positive
\* and is 0 when it is 0, count being the transactions of the batch
\* submitted, or of the whole run
C20_Throughput ==
    /\ \A n \in 1..Len(batch_results) :
         IsThroughput(batch_results[n].throughput,
                      Len(submissions[batch_results[n].batch_id].transactions),
                      batch_results[n].duration_seconds)
    /\ pc = "done" =>
         IsThroughput(summary.throughput, Len(transactions), summary.total_time)

\* a run of two batches of one transaction: the first took two ticks, the
\* second none, and the run took two ticks for the two transactions
C20_Witness ==
    /\ pc = "done"
    /\ total = 2
    /\ Len(batch_results) = 2
    /\ batch_results[1].duration_seconds = 2
    /\ batch_results[1].throughput = <<1, 2>>
    /\ batch_results[2].duration_seconds = 0
    /\ batch_results[2].throughput = Zero
    /\ summary.total_time = 2
    /\ summary.throughput = <<1, 1>>

\* the messages that carry the batch id, the status of `response` and the
\* detail of its body when it has one (any text in the place of a detail
\* the body does not supply)
TypedMessages(batch_id, response) ==
    LET prefix == "Batch " \o ToString(batch_id) \o " failed with status "
                      \o ToString(response.status_code) \o ": "
    IN  IF response.text = "json" /\ "detail" \in DOMAIN response.json
        THEN {prefix \o response.json["detail"]}
        ELSE {prefix \o "Unknown error", prefix \o "No response"}

\* C21: a step in which the request in flight gets a final answer whose
\* status is not 200 ends in the except clause with an exception raised by
\* process_batch, and its message carries the batch id, that status and the
\* detail of the body when it has one, whether the body is empty, JSON with
\* a detail, JSON without one, or no JSON at all
C21_NonSuccessRaisesTyped ==
    [][(/\ pc = "await"
        /\ pc' = "loop"
        /\ exchanges'[Len(exchanges')].status \notin {200, NoResponse})
       => /\ Len(attempts') = Len(attempts) + 1
          /\ attempts'[Len(attempts')].stage = "process_batch"
          /\ all_results' = all_results
          /\ batch_results' = batch_results
          /\ \E response \in ErrorResponses \cup OverloadResponses :
                 /\ response.status_code = exchanges'[Len(exchanges')].status
                 /\ failed_batches'[Len(failed_batches')]
                        = [batch_id |-> BatchId,
                           error |-> attempts'[Len(attempts')].error]
                 /\ attempts'[Len(attempts')].error
                        \in TypedMessages(BatchId, response)]_vars

\* the attempt at position n ended in the except clause
Caught(n) == attempts[n].stage # "ok"

\* C22: process_all never raises to its caller, for any list and any batch
\* size; a run that has ended returned a summary after at most one
\* submission per transaction, every exception of a submission, of hash
\* validation or of the callback being recorded in failed_batches; for the
\* empty list there is no submission, no callback invocation and every count
\* of the summary is zero
C22_NeverRaises ==
    /\ pc # "raised"
    /\ Len(submissions) <= total
    /\ \A n \in 1..Len(attempts) :
           Caught(n) =>
               \E m \in 1..Len(failed_batches) :
                   failed_batches[m] = [batch_id |-> attempts[n].batch_id,
                                        error |-> attempts[n].error]
    /\ pc = "done" =>
           /\ summary.total_transactions = total
           /\ summary.failed_batches = failed_batches
           /\ total = 0 =>
                  /\ submissions = <<>>
                  /\ progress_calls = <<>>
                  /\ summary.successful = 0
                  /\ summary.failed = 0
                  /\ summary.failed_batches = <<>>
                  /\ summary.results = <<>>
                  /\ summary.throughput = Zero

\* the batch ids listed in failed_batches, in list order
FailedIdSeq == [n \in 1..Len(failed_batches) |-> failed_batches[n].batch_id]

\* the batch ids handed to process_batch so far
AttemptedIds == {submissions[n].batch_id : n \in 1..Len(submissions)}

\* C23: batch ids are 1-based and consecutive, the batch with id k covering
\* exactly the inputs at 0-based positions (k-1)*B .. min(k*B, N)-1; at
\* every point of the run failed_batches lists batch ids in strictly
\* increasing order (so each at most once), and only ids of batches
\* already attempted
C23_BatchIds ==
    /\ \A n \in 1..Len(submissions) :
           /\ submissions[n].batch_id = n
           /\ Len(submissions[n].transactions)
                  = Min(n * batch_size, total) - (n - 1) * batch_size
           /\ \A o \in 1..Len(submissions[n].transactions) :
                  submissions[n].transactions[o]
                      = transactions[(n - 1) * batch_size + o]
    /\ \A n \in 1..Len(failed_batches) :
           /\ FailedIdSeq[n] \in AttemptedIds
           /\ n > 1 => FailedIdSeq[n - 1] < FailedIdSeq[n]

\* a finished run of three batches: the first and the third are listed as
\* failed, the second succeeded
C23_Witness ==
    /\ pc = "done"
    /\ batch_size = 1
    /\ total = 3
    /\ FailedIdSeq = <<1, 3>>
    /\ Len(submissions) = 3
    /\ attempts[2].stage = "ok"

\* C24: the count handed to the progress callback for batch k is the end
\* offset min(k*B, N) of that batch, whatever happened to the earlier
\* batches, and it equals the number of entries in results at that moment
\* only when no earlier batch failed
C24_ProgressCountsEndOffset ==
    [][progress_calls' # progress_calls =>
          /\ Len(progress_calls') = Len(progress_calls) + 1
          /\ progress_calls'[Len(progress_calls')][1]
                 = Min(BatchId * batch_size, total)
          /\ progress_calls'[Len(progress_calls')][1] = Len(all_results')
                 => failed_batches = <<>>]_vars

====
